---- MODULE Spec2Model ----
(***************************************************************************)
(* The query-resolution engine of src/src/scratchpad/__main__.py:          *)
(* Things with dynamically present attributes, attribute paths and         *)
(* queries, capability-matched providers, the Secretary, and the           *)
(* generator-based Investigation, whose frames are kept as an explicit     *)
(* stack.  One step of the consumer (one next() on the generator) is one   *)
(* action.  The functions that take all they read as arguments are also    *)
(* called directly, on arguments of their own (PureSpec).                  *)
(***************************************************************************)
EXTENDS Integers, Sequences, FiniteSets, TLC

\* Bounds of the model.
MaxThings == 3
MaxQueryLen == 3

VARIABLES
    things,      \* the entity graph: thing id -> [type, attrs]
    query,       \* Secretary.query: sequence of SecretaryQueryLine
    pc,          \* "idle", "created", "suspended", "done" or "raised"
    root,        \* Investigation.thing of the outermost Investigation (0: none)
    top_query,   \* Investigation.query of the outermost Investigation
    stack,       \* the chain of suspended Investigation generators, innermost first
    events,      \* the InvestigationResults yielded so far
    opened,      \* every provider.open(thing) consumed so far, in call order
    error,       \* the exception that ended the iteration ("none": none)
    call,        \* a direct call of one function: its name and arguments
    returned     \* what the direct calls made so far have returned, in order

vars ==
    <<things, query, pc, root, top_query, stack, events, opened, error,
      call, returned>>

-----------------------------------------------------------------------------
\* Values

NoneValue == [kind |-> "none", s |-> "", n |-> 0]
StrValue(s) == [kind |-> "str", s |-> s, n |-> 0]
IntValue(n) == [kind |-> "int", s |-> "", n |-> n]
TagValue(content) == [kind |-> "tag", s |-> content, n |-> 0]

\* Python truthiness of a value handed to tidy_value (a bs4.Tag is truthy).
truthy(value) ==
    CASE value.kind = "none" -> FALSE
      [] value.kind = "str" -> value.s # ""
      [] value.kind = "int" -> value.n # 0
      [] OTHER -> TRUE

\* A url, by what urlparse and the providers' opens_url read of it.
AlbumUrl == [bandcamp |-> TRUE, page |-> "album"]
TrackUrl == [bandcamp |-> TRUE, page |-> "track"]

\* Attributes holding a list of Things, and attributes holding a list of str.
ThingListAttrs == {"tracks"}
StrListAttrs == {"urls"}

ThingIds == DOMAIN things

hasattr(thing, attr) == attr \in DOMAIN things[thing].attrs
getattr(thing, attr) == things[thing].attrs[attr]

\* isinstance(thing, cls) for the classes Thing, Album(Thing), Track(Thing).
isinstance(thing, cls) == cls = "Thing" \/ things[thing].type = cls

-----------------------------------------------------------------------------
\* Thing.satisfied and Thing.filter_query

RECURSIVE satisfied(_, _)
RECURSIVE satisfied_each(_, _)

\* Mutant of satisfied_each: the loop returns after its first element.
satisfied_each_first_only(own_value, rest) ==
    IF own_value = <<>> THEN "True" ELSE satisfied(Head(own_value), rest)

\* The loop of Thing.satisfied over own_value: the first child that is not
\* satisfied (or raises) decides.
satisfied_each(own_value, rest) ==
    IF own_value = <<>> THEN "True"
    ELSE LET r == satisfied(Head(own_value), rest)
         IN  IF r = "True" THEN satisfied_each(Tail(own_value), rest) ELSE r

\* "True", "False", or the exception raised: unpacking an empty path is a
\* ValueError, iterating an int a TypeError, and the elements of a str or of
\* a list of str have no satisfied method (AttributeError).
satisfied(thing, attr_path) ==
    IF attr_path = <<>> THEN "ValueError"
    ELSE LET own_attr == Head(attr_path)
             rest == Tail(attr_path)
         IN  IF ~hasattr(thing, own_attr) THEN "False"
             ELSE IF rest = <<>> THEN "True"
             ELSE IF own_attr \in ThingListAttrs
                  THEN satisfied_each(getattr(thing, own_attr), rest)
             ELSE IF own_attr \in StrListAttrs
                  THEN IF getattr(thing, own_attr) = <<>> THEN "True"
                       ELSE "AttributeError"
             ELSE IF getattr(thing, own_attr).kind = "int" THEN "TypeError"
             ELSE IF getattr(thing, own_attr).s = "" THEN "True"
             ELSE "AttributeError"

IsException(r) == r \notin {"True", "False"}

\* The exception filter_query raises, "none" when it returns: the
\* comprehension evaluates satisfied line by line, in order.
RECURSIVE filter_query_error(_, _)
filter_query_error(thing, q) ==
    IF q = <<>> THEN "none"
    ELSE LET r == satisfied(thing, Head(q))
         IN  IF IsException(r) THEN r ELSE filter_query_error(thing, Tail(q))

\* Mutant of filter_query: the satisfied lines are kept too.
filter_query_unfiltered(thing, q) == q

\* Mutant of filter_query: a line that comes again in the query is taken
\* the first time only.
filter_query_once(thing, q) ==
    LET kept == {i \in DOMAIN q :
                    /\ satisfied(thing, q[i]) = "False"
                    /\ \A j \in 1..(i - 1) : q[j] # q[i]}
        nth(k) == CHOOSE i \in kept : Cardinality({j \in kept : j < i}) = k - 1
    IN  [k \in 1..Cardinality(kept) |-> q[nth(k)]]

\* Mutant of filter_query: the first of the unsatisfied lines is left out.
filter_query_dropping_first(thing, q) ==
    LET unsatisfied == SelectSeq(q, LAMBDA line : satisfied(thing, line) = "False")
    IN  IF unsatisfied = <<>> THEN <<>> ELSE Tail(unsatisfied)

filter_query(thing, q) ==
    SelectSeq(q, LAMBDA line : satisfied(thing, line) = "False")

-----------------------------------------------------------------------------
\* Providers

AttributeCapability(thing_type, attr_path) ==
    [thing_type |-> thing_type, attr_path |-> attr_path]

\* Mutant of matches: a path that the capability's path starts with matches.
matches_prefix(c, thing, attr_path) ==
    IF ~isinstance(thing, c.thing_type) THEN FALSE
    ELSE /\ Len(attr_path) <= Len(c.attr_path)
         /\ SubSeq(c.attr_path, 1, Len(attr_path)) = attr_path

matches(c, thing, attr_path) ==
    IF ~isinstance(thing, c.thing_type) THEN FALSE
    ELSE attr_path = c.attr_path

BandcampAlbumPageProvider ==
    [name |-> "BandcampAlbumPageProvider",
     capabilities |-> <<AttributeCapability("Album", <<"name">>),
                        AttributeCapability("Album", <<"tracks", "bandcamp_track_url">>)>>]

BandcampTrackPageProvider ==
    [name |-> "BandcampTrackPageProvider",
     capabilities |-> <<AttributeCapability("Track", <<"name">>),
                        AttributeCapability("Track", <<"duration">>)>>]

bandcamp_providers == <<BandcampAlbumPageProvider, BandcampTrackPageProvider>>

opens_url(p, url) ==
    IF p.name = "BandcampAlbumPageProvider"
    THEN url.bandcamp /\ url.page = "album"
    ELSE url.bandcamp /\ url.page = "track"

\* WebProvider.select_url: the index of the first url the provider opens,
\* 0 for None.
select_url(p, thing) ==
    LET urls == getattr(thing, "urls")
        hits == {i \in DOMAIN urls : opens_url(p, urls[i])}
    IN  IF hits = {} THEN 0 ELSE CHOOSE i \in hits : \A j \in hits : i <= j

opens(p, thing) == select_url(p, thing) # 0

\* What requests.get and the parser can give for a url: a page with or
\* without a <meta name=title>, or an exception.
TitledPage == [kind |-> "page", meta_title |-> TagValue("title")]
UntitledPage == [kind |-> "page", meta_title |-> NoneValue]
NoPage == [kind |-> "None", meta_title |-> NoneValue]
RequestRaises == [kind |-> "raise", meta_title |-> NoneValue]
FetchOutcomes == {RequestRaises, TitledPage, UntitledPage}

\* WebProvider.fetch_page: None (no url selected) without any request, else
\* the outcome of the request.
fetch_page(p, thing, outcome) ==
    IF select_url(p, thing) = 0 THEN NoPage ELSE outcome

DurationSlurped == 413

slurp(p, soup) ==
    IF p.name = "BandcampAlbumPageProvider"
    THEN <<[attr |-> "name", value |-> soup.meta_title]>>
    ELSE <<[attr |-> "duration", value |-> IntValue(DurationSlurped)]>>

tidy_attr(attr) == <<attr>>

tidy_value(value) ==
    IF ~truthy(value) THEN NoneValue
    ELSE IF value.kind = "tag" THEN StrValue(value.s)
    ELSE value

ProviderResult(attr_path, value) == [attr_path |-> attr_path, value |-> value]

RECURSIVE tidy_results(_)
tidy_results(slurped) ==
    IF slurped = <<>> THEN <<>>
    ELSE LET r_attr == tidy_attr(Head(slurped).attr)
             r_value == tidy_value(Head(slurped).value)
         IN  (IF r_value # NoneValue
              THEN <<ProviderResult(r_attr, r_value)>> ELSE <<>>)
             \o tidy_results(Tail(slurped))

\* WebProvider.open, consumed to its end: the ProviderResults it yields
\* (soup is a page or NoPage; a raising fetch ends the caller's loop).
open(p, soup) ==
    IF soup.kind = "None" THEN <<>> ELSE tidy_results(slurp(p, soup))

-----------------------------------------------------------------------------
\* Secretary

SecretaryQueryLine(thing_type, attr_path) ==
    [thing_type |-> thing_type, attr_path |-> attr_path]

\* Secretary.providers (its default).
providers == bandcamp_providers

\* [q.attr_path for q in self.query if isinstance(thing, q.thing_type)]
RECURSIVE attr_paths_for(_, _)
attr_paths_for(thing, lines) ==
    IF lines = <<>> THEN <<>>
    ELSE (IF isinstance(thing, Head(lines).thing_type)
          THEN <<Head(lines).attr_path>> ELSE <<>>)
         \o attr_paths_for(thing, Tail(lines))

\* Mutant of get_top_level_query: the lines of every type are taken.
get_top_level_query_all(thing) ==
    [i \in DOMAIN query |-> query[i].attr_path]

get_top_level_query(thing) == attr_paths_for(thing, query)

any_line_matches(c, thing, q) ==
    \E i \in DOMAIN q : matches(c, thing, q[i])

any_capability_matches(p, thing, q) ==
    \E k \in DOMAIN p.capabilities : any_line_matches(p.capabilities[k], thing, q)

filter_providers(thing, q) ==
    SelectSeq(providers, LAMBDA p : any_capability_matches(p, thing, q))

\* SentinelReadyResults((r.attr_path, r.value) for r in provision): a dict,
\* so the last result of a path is the one kept.
sentinel_results_from_provision(provision) ==
    [path \in {provision[i].attr_path : i \in DOMAIN provision} |->
        LET last == CHOOSE i \in DOMAIN provision :
                        /\ provision[i].attr_path = path
                        /\ \A j \in DOMAIN provision :
                               provision[j].attr_path = path => j <= i
        IN  provision[last].value]

\* Mutant of request_calls: the Track provider is opened for each of the
\* thing's tracks as well, ahead of their own Investigations.
request_calls_eager(thing, q, outcomes) ==
    LET retained == filter_providers(thing, q)
        soup(i) == fetch_page(retained[i], thing, outcomes[i])
        raising == {i \in DOMAIN retained : soup(i).kind = "raise"}
        last == IF raising = {} THEN Len(retained)
                ELSE CHOOSE i \in raising : \A j \in raising : i <= j
    IN  [i \in 1..last |->
            [provider |-> retained[i].name,
             thing |-> thing,
             raised |-> soup(i).kind = "raise",
             results |-> IF soup(i).kind = "raise" THEN <<>>
                         ELSE sentinel_results_from_provision(
                                  open(retained[i], soup(i)))]]
        \o (IF hasattr(thing, "tracks")
            THEN [i \in DOMAIN getattr(thing, "tracks") |->
                     [provider |-> BandcampTrackPageProvider.name,
                      thing |-> getattr(thing, "tracks")[i],
                      raised |-> FALSE,
                      results |-> <<>>]]
            ELSE <<>>)

\* The provider.open calls of one Secretary.request, in order, given what
\* each fetch gives: the loop ends at the first call that raises.
request_calls(thing, q, outcomes) ==
    LET retained == filter_providers(thing, q)
        soup(i) == fetch_page(retained[i], thing, outcomes[i])
        raising == {i \in DOMAIN retained : soup(i).kind = "raise"}
        last == IF raising = {} THEN Len(retained)
                ELSE CHOOSE i \in raising : \A j \in raising : i <= j
    IN  [i \in 1..last |->
            [provider |-> retained[i].name,
             thing |-> thing,
             raised |-> soup(i).kind = "raise",
             results |-> IF soup(i).kind = "raise" THEN <<>>
                         ELSE sentinel_results_from_provision(
                                  open(retained[i], soup(i)))]]

request_raises(calls) == \E i \in DOMAIN calls : calls[i].raised

\* Mutant of request_things: every one-segment result of every provision is
\* set on the thing, the last one of a path winning.
request_things_merging(thing, q, calls) ==
    LET yielded == {path[1] : path \in
                       {r \in UNION {DOMAIN calls[i].results : i \in DOMAIN calls} :
                           Len(r) = 1}}
        last(a) == CHOOSE i \in DOMAIN calls :
                       /\ <<a>> \in DOMAIN calls[i].results
                       /\ \A j \in DOMAIN calls :
                              <<a>> \in DOMAIN calls[j].results => j <= i
    IN  [things EXCEPT ![thing].attrs =
            [a \in yielded |-> calls[last(a)].results[<<a>>]] @@ @]

\* The entity graph after Secretary.request: the results of each provision
\* are bound to a local and logged, nothing is set on the thing.
request_things(thing, q, calls) == things

\* Secretary.request returns False.
request_result(calls) == FALSE

-----------------------------------------------------------------------------
\* group_query: itertools.groupby over the lines longer than one segment,
\* which starts a new group whenever the first segment changes.

\* The length of the run of lines with the first segment of line i.
RECURSIVE run_length(_, _)
run_length(indirect, i) ==
    IF i < Len(indirect) /\ indirect[i + 1][1] = indirect[i][1]
    THEN 1 + run_length(indirect, i + 1)
    ELSE 1

\* The groups of the lines from line i on: one (key, [q[1:] for q in group])
\* per run.
RECURSIVE groupby_from(_, _)
groupby_from(indirect, i) ==
    IF i > Len(indirect) THEN <<>>
    ELSE <<[key |-> indirect[i][1],
            group |-> [j \in 1..run_length(indirect, i) |->
                          Tail(indirect[i + j - 1])]]>>
         \o groupby_from(indirect, i + run_length(indirect, i))

group_query(q) ==
    groupby_from(SelectSeq(q, LAMBDA line : Len(line) > 1), 1)

-----------------------------------------------------------------------------
\* Investigation

\* One Investigation generator: its thing and query, the query group its
\* loop is at (0: suspended at its own yield) and the child of that group
\* whose sub-investigation is running.
Frame(thing, q) == [thing |-> thing, query |-> q, group |-> 0, child |-> 0]

InvestigationResult(result, thing, q) ==
    [result |-> result, thing |-> thing, lines |-> q]

\* Investigation.subs: the things a query group descends into.  (A present
\* own_attr that holds no list of Things is an empty str or an empty list of
\* str here: were it anything else, filter_query has raised on the line.)
subs(thing, own_attr) ==
    IF satisfied(thing, <<own_attr>>) = "True" /\ own_attr \in ThingListAttrs
    THEN getattr(thing, own_attr) ELSE <<>>

\* Resuming the generator chain st (innermost generator first) after a
\* yield: the chain with the Investigation of the next thing in front (not
\* yet run), or <<>> when the outermost generator is exhausted.
RECURSIVE resume(_)

\* Mutant of resume: the loop over the children of a group does not move on,
\* each resumption starts the group's first child again.
resume_same_child(st) ==
    IF st = <<>> THEN <<>>
    ELSE IF st[1].group = 0
    THEN resume([st EXCEPT ![1].group = 1, ![1].child = 0])
    ELSE IF st[1].group > Len(group_query(st[1].query))
    THEN resume(Tail(st))
    ELSE LET g == group_query(st[1].query)[st[1].group]
             children == subs(st[1].thing, g.key)
         IN  IF children # <<>>
             THEN <<Frame(children[1], g.group)>> \o st
             ELSE resume([st EXCEPT ![1].group = @ + 1, ![1].child = 0])

\* Mutant of resume: the query groups are those of the lines the thing does
\* not satisfy.
resume_from_filtered(st) ==
    IF st = <<>> THEN <<>>
    ELSE IF st[1].group = 0
    THEN resume([st EXCEPT ![1].group = 1, ![1].child = 0])
    ELSE IF st[1].group
              > Len(group_query(filter_query(st[1].thing, st[1].query)))
    THEN resume(Tail(st))
    ELSE LET g == group_query(filter_query(st[1].thing,
                                           st[1].query))[st[1].group]
             children == subs(st[1].thing, g.key)
         IN  IF st[1].child < Len(children)
             THEN <<Frame(children[st[1].child + 1], g.group)>>
                  \o [st EXCEPT ![1].child = @ + 1]
             ELSE resume([st EXCEPT ![1].group = @ + 1, ![1].child = 0])

resume(st) ==
    IF st = <<>> THEN <<>>
    ELSE IF st[1].group = 0
    THEN resume([st EXCEPT ![1].group = 1, ![1].child = 0])
    ELSE IF st[1].group > Len(group_query(st[1].query))
    THEN resume(Tail(st))
    ELSE LET g == group_query(st[1].query)[st[1].group]
             children == subs(st[1].thing, g.key)
         IN  IF st[1].child < Len(children)
             THEN <<Frame(children[st[1].child + 1], g.group)>>
                  \o [st EXCEPT ![1].child = @ + 1]
             ELSE resume([st EXCEPT ![1].group = @ + 1, ![1].child = 0])

-----------------------------------------------------------------------------
\* The initial states: an entity graph built by the caller and a Secretary.

RECURSIVE SortedSeq(_)
SortedSeq(S) ==
    IF S = {} THEN <<>>
    ELSE LET m == CHOOSE x \in S : \A y \in S : x <= y
         IN  <<m>> \o SortedSeq(S \ {m})

\* What the caller has set on a thing before the investigation.
Profiles ==
    {[name |-> FALSE, duration |-> FALSE, url |-> FALSE],
     [name |-> FALSE, duration |-> FALSE, url |-> TRUE],
     [name |-> TRUE, duration |-> TRUE, url |-> TRUE]}

NameSet == StrValue("X")
DurationSet == IntValue(180)

\* Album() and Track() set urls (and Album sets tracks); everything else is
\* set by the caller.  Thing 1 is an Album, the others are Tracks; a Track
\* with children has them in a tracks attribute of its own.
NewThing(id, profile, children) ==
    LET type == IF id = 1 THEN "Album" ELSE "Track"
        own_url == IF type = "Album" THEN AlbumUrl ELSE TrackUrl
        urls == "urls" :> (IF profile.url THEN <<own_url>> ELSE <<>>)
        tracks == IF type = "Album" \/ children # <<>>
                  THEN "tracks" :> children ELSE <<>>
        name == IF profile.name THEN "name" :> NameSet ELSE <<>>
        duration == IF profile.duration
                    THEN "duration" :> DurationSet ELSE <<>>
    IN  [type |-> type, attrs |-> urls @@ tracks @@ name @@ duration]

\* The graphs over 1..n: an Album (thing 1) with its tracks in the order they
\* were made, where the last thing made is a track of the album or of the
\* album's first track.
Parents(n) ==
    {f \in [2..n -> 1..2] :
        \A c \in 2..n : f[c] < c /\ (f[c] = 2 => c = n)}

Graphs ==
    UNION {
        {[id \in 1..n |->
             NewThing(id, profile[id],
                      SortedSeq({c \in 2..n : parent[c] = id}))] :
            parent \in Parents(n),
            profile \in [1..n -> Profiles]} :
        n \in 1..MaxThings}

\* The graphs whose things were all set up alike.
UniformGraphs ==
    UNION {
        {[id \in 1..n |->
             NewThing(id, profile,
                      SortedSeq({c \in 2..n : parent[c] = id}))] :
            parent \in Parents(n),
            profile \in Profiles} :
        n \in 1..MaxThings}

\* The query lines a Secretary is given here are taken, in this order, from:
DeclaredLines ==
    <<SecretaryQueryLine("Thing", <<"name">>),
      SecretaryQueryLine("Album", <<"tracks", "name">>),
      SecretaryQueryLine("Album", <<"urls", "name">>),
      SecretaryQueryLine("Album", <<"tracks", "duration">>),
      SecretaryQueryLine("Album", <<>>),
      SecretaryQueryLine("Album", <<"tracks", "bandcamp_track_url">>),
      SecretaryQueryLine("Thing", <<"tracks", "tracks", "name">>)>>

Queries ==
    {[k \in 1..Cardinality(I) |-> DeclaredLines[SortedSeq(I)[k]]] :
        I \in {J \in SUBSET DOMAIN DeclaredLines : Cardinality(J) <= MaxQueryLen}}

\* No function is called directly in an investigation.
NoCapability == AttributeCapability("none", <<>>)

NoCall ==
    [op |-> "none", thing |-> 0, query |-> <<>>,
     capability |-> NoCapability, attr_path |-> <<>>]

Init ==
    /\ things \in Graphs
    /\ query \in Queries
    /\ pc = "idle"
    /\ root = 0
    /\ top_query = <<>>
    /\ stack = <<>>
    /\ events = <<>>
    /\ opened = <<>>
    /\ error = "none"
    /\ call = NoCall
    /\ returned = <<>>

-----------------------------------------------------------------------------
\* Actions

\* Secretary.investigate(thing): builds the Investigation; nothing of it
\* runs before the first next().
investigate(thing) ==
    /\ pc = "idle"
    /\ pc' = "created"
    /\ root' = thing
    /\ top_query' = get_top_level_query(thing)
    /\ UNCHANGED <<things, query, stack, events, opened, error, call, returned>>

\* The generator chain a next() runs the top of: the outermost Investigation
\* on the first next(), afterwards what resuming the chain leads to.
next_chain ==
    IF pc = "created" THEN <<Frame(root, top_query)>> ELSE resume(stack)

\* next() finds the outermost generator exhausted: StopIteration.
next_stop ==
    /\ pc \in {"created", "suspended"}
    /\ next_chain = <<>>
    /\ pc' = "done"
    /\ stack' = <<>>
    /\ UNCHANGED <<things, query, root, top_query, events, opened, error, call,
                   returned>>

\* next() runs Investigation.__iter__ up to its yield for the next thing,
\* and filter_query raises.
next_filter_raises ==
    /\ pc \in {"created", "suspended"}
    /\ \E chain \in {next_chain} :
         /\ chain # <<>>
         /\ \E f \in {chain[1]} :
              \E raised \in {filter_query_error(f.thing, f.query)} :
                 /\ raised # "none"
                 /\ error' = raised
    /\ pc' = "raised"
    /\ stack' = <<>>
    /\ UNCHANGED <<things, query, root, top_query, events, opened, call, returned>>

\* next() runs Investigation.__iter__ up to its yield for the next thing,
\* and a provider's open raises inside Secretary.request.
next_request_raises ==
    /\ pc \in {"created", "suspended"}
    /\ \E chain \in {next_chain} :
         /\ chain # <<>>
         /\ \E f \in {chain[1]} :
              /\ filter_query_error(f.thing, f.query) = "none"
              /\ \E filtered \in {filter_query(f.thing, f.query)} :
                 \E outcomes \in [DOMAIN filter_providers(f.thing, filtered)
                                     -> FetchOutcomes] :
                 \E calls \in {request_calls(f.thing, filtered, outcomes)} :
                    /\ request_raises(calls)
                    /\ opened' = opened \o calls
                    /\ things' = request_things(f.thing, filtered, calls)
    /\ pc' = "raised"
    /\ error' = "RequestException"
    /\ stack' = <<>>
    /\ UNCHANGED <<query, root, top_query, events, call, returned>>

\* next() runs Investigation.__iter__ up to its yield for the next thing:
\* filter_query, Secretary.request, and the InvestigationResult yielded.
next_yields ==
    /\ pc \in {"created", "suspended"}
    /\ \E chain \in {next_chain} :
         /\ chain # <<>>
         /\ \E f \in {chain[1]} :
              /\ filter_query_error(f.thing, f.query) = "none"
              /\ \E filtered \in {filter_query(f.thing, f.query)} :
                 \E outcomes \in [DOMAIN filter_providers(f.thing, filtered)
                                     -> FetchOutcomes] :
                 \E calls \in {request_calls(f.thing, filtered, outcomes)} :
                    /\ ~request_raises(calls)
                    /\ opened' = opened \o calls
                    /\ things' = request_things(f.thing, filtered, calls)
                    /\ events' = Append(events,
                           InvestigationResult(request_result(calls),
                                               f.thing, filtered))
         /\ stack' = chain
    /\ pc' = "suspended"
    /\ UNCHANGED <<query, root, top_query, error, call, returned>>

Next ==
    \/ \E thing \in ThingIds : investigate(thing)
    \/ next_stop
    \/ next_filter_raises
    \/ next_request_raises
    \/ next_yields

Spec == Init /\ [][Next]_vars

\* The consumer is a for loop over the Investigation: it calls next() until
\* the generator stops or raises.  (Checked over the uniform graphs.)
LiveInit == Init /\ things \in UniformGraphs

LiveSpec == LiveInit /\ [][Next]_vars /\ WF_vars(Next)

-----------------------------------------------------------------------------
\* Direct calls of Thing.filter_query, group_query and
\* AttributeCapability.matches, on an entity graph built by the caller.

\* The lines of the queries passed: one segment and several, two heads, one
\* head with two tails.
PurePaths ==
    {<<"name">>, <<"tracks", "name">>, <<"tracks", "duration">>,
     <<"urls", "name">>}

\* The queries passed: every sequence of these lines, repeated lines included.
AttributeQueries ==
    UNION {[1..n -> PurePaths] : n \in 0..MaxQueryLen}

\* The capabilities the providers declare.
Capabilities ==
    UNION {{providers[i].capabilities[k] : k \in DOMAIN providers[i].capabilities} :
              i \in DOMAIN providers}

\* The paths matched against a capability: the declared paths, what each
\* starts with, and each with one more segment.
MatchPaths ==
    UNION {{SubSeq(c.attr_path, 1, k) : k \in 0..Len(c.attr_path)}
           \cup {Append(c.attr_path, "name")} : c \in Capabilities}

Calls ==
    {[NoCall EXCEPT !.op = "filter_query", !.thing = thing, !.query = q] :
        thing \in ThingIds, q \in AttributeQueries}
    \cup {[NoCall EXCEPT !.op = "group_query", !.query = q] :
             q \in AttributeQueries}
    \cup {[NoCall EXCEPT !.op = "matches", !.capability = c, !.thing = thing,
                         !.attr_path = path] :
             c \in Capabilities, thing \in ThingIds, path \in MatchPaths}

PureInit ==
    /\ things \in Graphs
    /\ call \in Calls
    /\ returned = <<>>
    /\ query = <<>>
    /\ pc = "idle"
    /\ root = 0
    /\ top_query = <<>>
    /\ stack = <<>>
    /\ events = <<>>
    /\ opened = <<>>
    /\ error = "none"

\* What a call gave: the exception it raised ("none": none) or its value.
Returned(raised, value) == [raised |-> raised, value |-> value]

\* thing.filter_query(query): a new list is built, and satisfied only reads.
filter_query_call ==
    /\ call.op = "filter_query"
    /\ returned = <<>>
    /\ \E raised \in {filter_query_error(call.thing, call.query)} :
          returned' = <<Returned(raised,
                                 IF raised = "none"
                                 THEN filter_query(call.thing, call.query)
                                 ELSE <<>>)>>
    /\ UNCHANGED <<things, query, pc, root, top_query, stack, events, opened,
                   error, call>>

\* thing.filter_query(filtered), on what the first call returned.
filter_query_again ==
    /\ call.op = "filter_query"
    /\ Len(returned) = 1
    /\ returned[1].raised = "none"
    /\ \E raised \in {filter_query_error(call.thing, returned[1].value)} :
          returned' = Append(returned,
                             Returned(raised,
                                      IF raised = "none"
                                      THEN filter_query(call.thing, returned[1].value)
                                      ELSE <<>>))
    /\ UNCHANGED <<things, query, pc, root, top_query, stack, events, opened,
                   error, call>>

\* list(group_query(query))
group_query_call ==
    /\ call.op = "group_query"
    /\ returned = <<>>
    /\ returned' = <<Returned("none", group_query(call.query))>>
    /\ UNCHANGED <<things, query, pc, root, top_query, stack, events, opened,
                   error, call>>

\* capability.matches(thing, attr_path)
matches_call ==
    /\ call.op = "matches"
    /\ returned = <<>>
    /\ returned' = <<Returned("none",
                              matches(call.capability, call.thing, call.attr_path))>>
    /\ UNCHANGED <<things, query, pc, root, top_query, stack, events, opened,
                   error, call>>

PureNext ==
    \/ filter_query_call
    \/ filter_query_again
    \/ group_query_call
    \/ matches_call

PureSpec == PureInit /\ [][PureNext]_vars

-----------------------------------------------------------------------------
\* Helpers of the properties

Range(seq) == {seq[i] : i \in DOMAIN seq}

ProviderNamed(name) ==
    CHOOSE p \in Range(providers) : p.name = name

AttrNames == {"name", "duration", "bandcamp_track_url", "tracks", "urls"}

\* The attribute paths of up to three segments that descend through lists of
\* Things only.
CheckedPaths ==
    {<<a>> : a \in AttrNames}
    \cup {<<h, a>> : h \in ThingListAttrs, a \in AttrNames}
    \cup {<<h, k, a>> : h \in ThingListAttrs, k \in ThingListAttrs, a \in AttrNames}

-----------------------------------------------------------------------------
\* C1: for every thing and every attribute path of one or more segments,
\* satisfied is true iff the thing has the first segment's attribute and,
\* when segments remain, every element of that attribute's collection is
\* satisfied for the remaining segments (so an empty collection satisfies it,
\* and a one-segment path is satisfied exactly by presence).
C1_SatisfiedIffPresentAndChildren ==
    \A thing \in ThingIds : \A path \in CheckedPaths :
        (satisfied(thing, path) = "True")
        <=> /\ hasattr(thing, Head(path))
            /\ Len(path) > 1 =>
                   \A i \in DOMAIN getattr(thing, Head(path)) :
                       satisfied(getattr(thing, Head(path))[i], Tail(path)) = "True"

\* An investigation has filtered a query on an Album without name or urls
\* whose tracks are a satisfied and then an unsatisfied Track: name and
\* tracks.name are reported unsatisfied, urls.name over the empty urls is not.
C1_Witness ==
    /\ pc = "suspended"
    /\ Len(events) = 1
    /\ events[1].thing = 1
    /\ Len(getattr(1, "tracks")) = 2
    /\ hasattr(getattr(1, "tracks")[1], "name")
    /\ ~hasattr(getattr(1, "tracks")[2], "name")
    /\ top_query = <<<<"name">>, <<"tracks", "name">>, <<"urls", "name">>>>
    /\ events[1].lines = <<<<"name">>, <<"tracks", "name">>>>

\* C2: open(thing) is never called on a provider whose opens(thing) is false.
C2_OpenOnlyWhenOpens ==
    \A i \in DOMAIN opened :
        opens(ProviderNamed(opened[i].provider), opened[i].thing)

\* C3: once the event of a thing is out, every one-segment line it was
\* dispatched for and a provider yielded a value for is set on the thing,
\* to that value.
C3_ResultsMerged ==
    \A k \in DOMAIN events : \A i \in DOMAIN opened :
        (opened[i].thing = events[k].thing /\ ~opened[i].raised) =>
            \A path \in DOMAIN opened[i].results :
                (Len(path) = 1 /\ path \in Range(events[k].lines)) =>
                    /\ hasattr(events[k].thing, Head(path))
                    /\ getattr(events[k].thing, Head(path)) = opened[i].results[path]

\* C4: a provider's open that raises does not end the iteration: the event
\* of the thing is still yielded and nothing is raised to the consumer.
C4_ProviderFailureContained ==
    \A i \in DOMAIN opened :
        opened[i].raised =>
            /\ pc # "raised"
            /\ \E k \in DOMAIN events : events[k].thing = opened[i].thing

\* Every line of the outermost Investigation's query is satisfied.
AllSatisfied ==
    \A i \in DOMAIN top_query : satisfied(root, top_query[i]) = "True"

\* C5: an investigation of a thing on which every line of the query is
\* already satisfied opens no provider, reports no line in any event and
\* leaves the entity graph as it is.
C5_NoDispatchWhenSatisfied ==
    [][AllSatisfied =>
          /\ opened' = <<>>
          /\ things' = things
          /\ \A k \in DOMAIN events' : events'[k].lines = <<>>]_vars

\* A finished investigation of an Album with tracks, everything satisfied,
\* whose query has the name line a provider that opens the album can supply.
C5_Witness ==
    /\ pc = "done"
    /\ AllSatisfied
    /\ <<"name">> \in Range(top_query)
    /\ <<"tracks", "duration">> \in Range(top_query)
    /\ opens(BandcampAlbumPageProvider, root)
    /\ Len(events) >= 3
    /\ opened = <<>>

\* The thing and query the next next() dispatches for include line <<attr>>.
Requested(thing, attr) ==
    /\ next_chain # <<>>
    /\ next_chain[1].thing = thing
    /\ <<attr>> \in Range(next_chain[1].query)

\* C6: an attribute that a thing has and that is not a line of the query the
\* thing is being dispatched for keeps its value over the dispatch.
C6_UnrequestedAttributesKept ==
    [][\A thing \in ThingIds : \A attr \in DOMAIN things[thing].attrs :
          ~Requested(thing, attr) =>
              /\ attr \in DOMAIN things'[thing].attrs
              /\ things'[thing].attrs[attr] = things[thing].attrs[attr]]_vars

\* The album provider was opened for tracks.bandcamp_track_url and yielded a
\* name; the album had a name, name was no line of the query, the event is
\* out and the name is the one the caller set.
C6_Witness ==
    /\ pc = "suspended"
    /\ Len(events) = 1
    /\ <<"name">> \notin Range(top_query)
    /\ hasattr(root, "name")
    /\ getattr(root, "name") = NameSet
    /\ \E i \in DOMAIN opened :
           /\ opened[i].thing = root
           /\ <<"name">> \in DOMAIN opened[i].results
           /\ opened[i].results[<<"name">>] # NameSet

\* The declaration indexes of the lines whose type the root is an instance of.
MatchingLines ==
    {i \in DOMAIN query : isinstance(root, query[i].thing_type)}

\* C7: the Investigation that investigate returns has as its query the
\* attribute paths of exactly the declared lines whose type the root is an
\* instance of, in declaration order; and until it is iterated no provider
\* has been opened and no event produced.
C7_TopLevelQuerySelected ==
    pc # "idle" =>
        /\ Len(top_query) = Cardinality(MatchingLines)
        /\ \A k \in DOMAIN top_query :
               LET i == CHOOSE i \in MatchingLines :
                            Cardinality({j \in MatchingLines : j < i}) = k - 1
               IN  top_query[k] = query[i].attr_path
        /\ pc = "created" => (opened = <<>> /\ events = <<>> /\ stack = <<>>)

\* investigate has returned for a Track, with an Album line declared
\* between two lines that apply to it.
C7_Witness ==
    /\ pc = "created"
    /\ things[root].type = "Track"
    /\ Len(query) = 3
    /\ query[2].thing_type = "Album"
    /\ top_query = <<query[1].attr_path, query[3].attr_path>>

\* The query handed to investigate is malformed for the root: a line with
\* an empty path, or a line declared for a type the root is no instance of.
Malformed ==
    /\ pc # "idle"
    /\ \E i \in DOMAIN query :
           \/ query[i].attr_path = <<>>
           \/ ~isinstance(root, query[i].thing_type)

\* C8: a malformed query is rejected before any provider is opened and
\* before any event is produced; its lines are not dropped or processed.
C8_MalformedQueryRejected ==
    Malformed => (events = <<>> /\ opened = <<>> /\ pc # "done")

\* The things in the tracks of a thing, and the things of its subtree.
tracks_of(thing) ==
    IF hasattr(thing, "tracks") THEN getattr(thing, "tracks") ELSE <<>>

RECURSIVE Subtree(_)
Subtree(thing) ==
    {thing} \cup UNION {Subtree(c) : c \in Range(tracks_of(thing))}

\* C9: the events are a depth-first pre-order trace: a thing's event comes
\* before any event of its descendants, and all the events of one child's
\* subtree come before any event of a later child of the same collection.
C9_DepthFirstPreOrder ==
    /\ \A i \in DOMAIN events : \A above \in Subtree(root) :
           (above # events[i].thing /\ events[i].thing \in Subtree(above)) =>
               \E j \in 1..(i - 1) : events[j].thing = above
    /\ \A thing \in ThingIds : \A a, b \in DOMAIN tracks_of(thing) :
           a < b =>
               \A i, j \in DOMAIN events :
                   (/\ events[i].thing \in Subtree(tracks_of(thing)[a])
                    /\ events[j].thing \in Subtree(tracks_of(thing)[b])) => i < j

\* The number of Investigations a thing and a query lead to: the thing's own
\* and, for each query group, those of each thing the group descends into.
RECURSIVE Visits(_, _)
RECURSIVE VisitsOfGroups(_, _)
RECURSIVE VisitsOfChildren(_, _)
Visits(thing, q) == 1 + VisitsOfGroups(thing, group_query(q))
VisitsOfGroups(thing, groups) ==
    IF groups = <<>> THEN 0
    ELSE VisitsOfChildren(subs(thing, Head(groups).key), Head(groups).group)
         + VisitsOfGroups(thing, Tail(groups))
VisitsOfChildren(children, q) ==
    IF children = <<>> THEN 0
    ELSE Visits(Head(children), q) + VisitsOfChildren(Tail(children), q)

\* C10: iterating an investigation ends (the generator stops or raises), and
\* the events never outnumber the (thing, query group) visits that the root
\* and its query lead to; a run that stops has produced exactly that many.
C10_InvestigationEnds ==
    /\ <>(pc \in {"done", "raised"})
    /\ [](pc # "idle" => Len(events) <= Visits(root, top_query))
    /\ [](pc = "done" => Len(events) = Visits(root, top_query))

\* An investigation over three levels has stopped after four events or more.
C10_Witness ==
    /\ pc = "done"
    /\ Len(events) >= 4
    /\ <<"tracks", "tracks", "name">> \in Range(top_query)
    /\ \E k \in DOMAIN events : events[k].thing \notin {root} \cup Range(tracks_of(root))

-----------------------------------------------------------------------------
\* The places in a query of the lines a thing does not satisfy, and the k-th
\* of a set of places.
Unsatisfied(thing, q) ==
    {i \in DOMAIN q : satisfied(thing, q[i]) = "False"}

Nth(places, k) ==
    CHOOSE i \in places : Cardinality({j \in places : j < i}) = k - 1

\* C11: thing.filter_query(query), when it returns, returns the lines of the
\* query that the thing does not satisfy and no other, each as often as it is
\* in the query and in the order of the query; the query passed and the
\* entity graph are as they were.
C11_FilterQueryKeepsUnsatisfied ==
    [][(call.op = "filter_query" /\ returned = <<>> /\ returned' # <<>>
        /\ returned'[1].raised = "none") =>
          /\ Len(returned'[1].value) = Cardinality(Unsatisfied(call.thing, call.query))
          /\ \A k \in DOMAIN returned'[1].value :
                 returned'[1].value[k]
                     = call.query[Nth(Unsatisfied(call.thing, call.query), k)]
          /\ call' = call
          /\ things' = things]_vars

\* filter_query has returned for a thing without a name whose tracks are
\* there and all named, on a query with the name line before and after
\* tracks.name: the name line is returned twice.
C11_Witness ==
    /\ call.op = "filter_query"
    /\ Len(returned) = 1
    /\ returned[1].raised = "none"
    /\ call.query = <<<<"name">>, <<"tracks", "name">>, <<"name">>>>
    /\ hasattr(call.thing, "tracks")
    /\ getattr(call.thing, "tracks") # <<>>
    /\ returned[1].value = <<<<"name">>, <<"name">>>>

\* C12: filtering what filter_query returned, on the same thing, returns the
\* same lines again, and none of the lines returned is satisfied.
C12_FilterQueryIdempotent ==
    (call.op = "filter_query" /\ Len(returned) = 2) =>
        /\ returned[2].raised = "none"
        /\ returned[2].value = returned[1].value
        /\ \A k \in DOMAIN returned[1].value :
               satisfied(call.thing, returned[1].value[k]) # "True"

\* filter_query has been called twice where the query had a satisfied line
\* between two unsatisfied ones; both calls returned the two.
C12_Witness ==
    /\ call.op = "filter_query"
    /\ Len(returned) = 2
    /\ Len(call.query) = 3
    /\ satisfied(call.thing, call.query[2]) = "True"
    /\ Len(returned[1].value) = 2
    /\ returned[2].value = returned[1].value

\* The first segments of the lines of a query that have more than one, and
\* the tails of the lines with one of them, in the order of the query.
Heads(q) == {q[i][1] : i \in {j \in DOMAIN q : Len(q[j]) > 1}}

TailsOf(q, head) ==
    LET with_head == SelectSeq(q, LAMBDA line : Len(line) > 1 /\ line[1] = head)
    IN  [k \in DOMAIN with_head |-> Tail(with_head[k])]

\* C13: group_query gives one group for each first segment of the lines with
\* more than one segment, also where the lines with that first segment are
\* apart in the query; the group lists the tails of all those lines in query
\* order, and the lines of one segment are in no group.
C13_GroupQueryPartitions ==
    (call.op = "group_query" /\ Len(returned) = 1) =>
        /\ \A head \in Heads(call.query) :
               Cardinality({g \in DOMAIN returned[1].value :
                               returned[1].value[g].key = head}) = 1
        /\ \A g \in DOMAIN returned[1].value :
               /\ returned[1].value[g].key \in Heads(call.query)
               /\ returned[1].value[g].group
                      = TailsOf(call.query, returned[1].value[g].key)

\* One path is the start of another, longer one.
ProperPrefix(short, long) ==
    /\ Len(short) < Len(long)
    /\ \A i \in DOMAIN short : short[i] = long[i]

\* C14: capability.matches(thing, path) is true iff the thing is an instance
\* of the capability's type and the path has the capability's length and
\* segments; a path that is the start of the capability's path, or that
\* starts with it, does not match, nor does an Album match a capability
\* declared for Track.
C14_MatchesExactPath ==
    (call.op = "matches" /\ Len(returned) = 1) =>
        /\ returned[1].value
               <=> /\ things[call.thing].type = call.capability.thing_type
                   /\ Len(call.attr_path) = Len(call.capability.attr_path)
                   /\ \A i \in DOMAIN call.attr_path :
                          call.attr_path[i] = call.capability.attr_path[i]
        /\ ProperPrefix(call.attr_path, call.capability.attr_path)
               => ~returned[1].value
        /\ ProperPrefix(call.capability.attr_path, call.attr_path)
               => ~returned[1].value
        /\ (call.capability.thing_type = "Track"
            /\ things[call.thing].type = "Album") => ~returned[1].value

\* matches has returned false for the path tracks on an Album, asked of the
\* Album capability tracks.bandcamp_track_url.
C14_Witness ==
    /\ call.op = "matches"
    /\ Len(returned) = 1
    /\ things[call.thing].type = "Album"
    /\ call.capability = AttributeCapability("Album", <<"tracks", "bandcamp_track_url">>)
    /\ call.attr_path = <<"tracks">>
    /\ returned[1].value = FALSE

\* The Investigations a thing and a query lead to, in the order they run:
\* the thing's own, then for each query group in turn those of each thing
\* the group descends into.
RECURSIVE VisitList(_, _)
RECURSIVE VisitListOfGroups(_, _)
RECURSIVE VisitListOfChildren(_, _)
VisitList(thing, q) ==
    <<[thing |-> thing, query |-> q]>>
    \o VisitListOfGroups(thing, group_query(q))
VisitListOfGroups(thing, groups) ==
    IF groups = <<>> THEN <<>>
    ELSE VisitListOfChildren(subs(thing, Head(groups).key), Head(groups).group)
         \o VisitListOfGroups(thing, Tail(groups))
VisitListOfChildren(children, q) ==
    IF children = <<>> THEN <<>>
    ELSE VisitList(Head(children), q) \o VisitListOfChildren(Tail(children), q)

\* The elements of the collection a thing has under a head.
Collection(thing, head) ==
    IF head \in ThingListAttrs \cup StrListAttrs
    THEN Range(getattr(thing, head)) ELSE {}

\* The lines of a query with more than one segment.
Indirect(q) == {q[i] : i \in {j \in DOMAIN q : Len(q[j]) > 1}}

C16_PullBased ==
    [][/\ \A i \in DOMAIN opened' :
              i > Len(opened) =>
                  /\ opened'[i].thing = next_chain[1].thing
                  /\ \/ pc' = "raised"
                     \/ /\ Len(events') = Len(events) + 1
                        /\ events'[Len(events')].thing = opened'[i].thing
       /\ Len(opened') >= Len(opened)
       /\ \A i \in DOMAIN opened : opened'[i] = opened[i]
       /\ Len(events') \in {Len(events), Len(events) + 1}
       /\ \A k \in DOMAIN events :
              /\ events'[k] = events[k]
              /\ \A attr \in DOMAIN things[events[k].thing].attrs :
                     /\ attr \in DOMAIN things'[events[k].thing].attrs
                     /\ things'[events[k].thing].attrs[attr]
                            = things[events[k].thing].attrs[attr]]_vars

\* The consumer has one event, the root's, for which a provider was opened;
\* the next thing is a track with an unsatisfied line that a provider is
\* retained for, and nothing has been opened for it.
C16_Witness ==
    /\ pc = "suspended"
    /\ Len(events) = 1
    /\ opened # <<>>
    /\ \A i \in DOMAIN opened : opened[i].thing = root
    /\ next_chain # <<>>
    /\ next_chain[1].thing # root
    /\ filter_query_error(next_chain[1].thing, next_chain[1].query) = "none"
    /\ filter_providers(next_chain[1].thing,
                        filter_query(next_chain[1].thing, next_chain[1].query)) # <<>>

\* The open calls made for a thing that returned, and the paths they yielded
\* a value for.
CallsFor(thing) ==
    {i \in DOMAIN opened : opened[i].thing = thing /\ ~opened[i].raised}

YieldedFor(thing) ==
    UNION {DOMAIN opened[i].results : i \in CallsFor(thing)}

\* C17: the lines of an event are those the thing does not satisfy once the
\* retained providers have run: they are filter_query of the thing's query on
\* the graph as the dispatch left it, no line a provider yielded a value for
\* in the dispatch is among them, and the event's flag is true exactly when
\* a provider yielded a value.
C17_EventReportsStateAfterDispatch ==
    pc # "idle" =>
        \A V \in {VisitList(root, top_query)} :
            \A k \in DOMAIN events :
                /\ events[k].lines = filter_query(V[k].thing, V[k].query)
                /\ \A line \in Range(events[k].lines) :
                       line \notin YieldedFor(events[k].thing)
                /\ events[k].result <=> (YieldedFor(events[k].thing) # {})

====
